---- MODULE Spec2Model ----
(***************************************************************************)
(* Model of the statistical tests of rngtest: the runs tests               *)
(* (stattests/runs.py), the template-matching tests                        *)
(* (stattests/_template.py) and the spectral test (fourier.py); of the     *)
(* report loop of the command line (rngtest/cli.py) and of the store of    *)
(* loaded data (prng/store.py).                                            *)
(*                                                                         *)
(* A series is the pair (n, pat): the sequence of length n whose i-th      *)
(* element (0-based) is pat[i mod Len(pat)].  With Len(pat) = n this is an *)
(* arbitrary sequence; with a short pat it is a long periodic one, which   *)
(* is how the lengths the tests require (128, 288, 6272, ...) are reached. *)
(* An optional argument is a sequence of length 0 (None) or 1 (a value).   *)
(***************************************************************************)
EXTENDS Integers, Sequences, FiniteSets, TLC

VARIABLES
    test,                \* the test function called
    series,              \* the series argument [n, pat]
    candidate,           \* the candidate argument, then the elected candidate
    template,            \* the template argument, then the template used
    nblocks,             \* nblocks (argument of the template tests, local of longest_runs)
    pc,                  \* position in the call
    error,               \* the exception raised ("" when none)
    blocksize,           \* local blocksize
    freqbinranges,       \* longest_runs: the regime's bin boundaries
    maxlenprobabilities, \* longest_runs: the regime's probabilities (x 10000)
    maxlengths,          \* longest_runs: longest candidate run of each chunk
    freqbins,            \* longest_runs: observed bin counts
    yielded,             \* runs: the runs asruns yielded to the count
    nruns,               \* runs: number of runs counted
    block_matches,       \* template tests: matches of each block
    tallies,             \* overlapping test: the 6 tallies
    warnings,            \* the recommendations warned about
    result,              \* the returned TestResult (<<>> when none)
    len_n,               \* spectral: the local n
    task,                \* spectral: the progress observer [total, advanced]
    fourier,             \* spectral: twice the squared magnitude of each peak kept
    nbelow,              \* spectral: peaks below the threshold
    report,              \* local_run: the --report path (<<>> when none)
    results,             \* local_run: what report() of each result does
    position,            \* local_run: results rendered so far
    html,                \* local_run: the markup collected
    report_file,         \* local_run: the lines written to the report file
    echoed,              \* local_run: the messages echoed
    manifest,            \* store: the manifest, store name -> store path
    stores,              \* store: the store directories on disk and their files
    last                 \* store: the last operation and how it ended

testVars == <<test, series, candidate, template, nblocks, pc, error, blocksize,
              freqbinranges, maxlenprobabilities, maxlengths, freqbins, yielded,
              nruns, block_matches, tallies, warnings, result>>

\* The variables of a test that an intermediate step of its body leaves alone.
testVarsButPc == <<test, series, candidate, template, nblocks, error, blocksize,
                   freqbinranges, maxlenprobabilities, maxlengths, freqbins,
                   yielded, nruns, block_matches, tallies, warnings, result>>

spectralVars == <<len_n, task, fourier, nbelow>>

cliVars == <<report, results, position, html, report_file, echoed>>

storeVars == <<manifest, stores, last>>

vars == <<testVars, spectralVars, cliVars, storeVars>>

\* The values of the variables a specification does not use.
SpectralIdle ==
    /\ len_n = 0
    /\ task = [total |-> 0, advanced |-> 0]
    /\ fourier = <<>>
    /\ nbelow = 0

CliIdle ==
    /\ report = <<>>
    /\ results = <<>>
    /\ position = 0
    /\ html = <<>>
    /\ report_file = <<>>
    /\ echoed = <<>>

StoreIdle ==
    /\ manifest = {}
    /\ stores = {}
    /\ last = <<>>

TestIdle ==
    /\ test = ""
    /\ series = [n |-> 0, pat |-> <<0>>]
    /\ candidate = <<>>
    /\ template = <<>>
    /\ nblocks = 0
    /\ blocksize = 0
    /\ freqbinranges = <<>>
    /\ maxlenprobabilities = <<>>
    /\ maxlengths = <<>>
    /\ freqbins = <<>>
    /\ yielded = <<>>
    /\ nruns = 0
    /\ block_matches = <<>>
    /\ tallies = <<>>
    /\ warnings = {}
    /\ result = <<>>

-----------------------------------------------------------------------------
(* Bounds of the inputs *)

MaxPeriod == 4          \* longest pattern a series repeats
MaxResults == 3         \* most results local_run renders
MaxData == 2            \* distinct data files loaded
MaxShort == 5           \* longest series of the runs test
MaxScanLen == 200       \* longest series longest_runs scans chunk by chunk
MaxTemplate == 2        \* longest explicit template

Values == {0, 1}

Patterns == UNION {[1..k -> Values] : k \in 1..MaxPeriod}

-----------------------------------------------------------------------------
(* Series *)

At(s, i) == s.pat[(i % Len(s.pat)) + 1]

Items(s) == [i \in 1..s.n |-> At(s, i - 1)]

RECURSIVE UniqueFrom(_, _, _)
UniqueFrom(seq, i, out) ==
    IF i > Len(seq) THEN out
    ELSE IF \E j \in 1..Len(out) : out[j] = seq[i]
         THEN UniqueFrom(seq, i + 1, out)
         ELSE UniqueFrom(seq, i + 1, Append(out, seq[i]))

\* pandas Series.unique(): the distinct values in order of first appearance.
\* Only the first period of a series can hold a first appearance.
unique(seq) == UniqueFrom(seq, 1, <<>>)

SeriesUnique(s) ==
    unique([i \in 1..(IF s.n < Len(s.pat) THEN s.n ELSE Len(s.pat)) |-> s.pat[i]])

Range(seq) == {seq[i] : i \in 1..Len(seq)}

RECURSIVE SumSeq(_, _)
SumSeq(seq, i) == IF i > Len(seq) THEN 0 ELSE seq[i] + SumSeq(seq, i + 1)

Sum(seq) == SumSeq(seq, 1)

\* chunks(series, blocksize) / rawblocks(series, blocksize): the n // blocksize
\* full blocks, the remainder discarded.
NChunks(s, bs) == IF bs = 0 THEN 0 ELSE s.n \div bs

Chunk(s, c, bs) == [i \in 1..bs |-> At(s, (c - 1) * bs + i - 1)]

-----------------------------------------------------------------------------
(* asruns *)

Run(value, length) == [value |-> value, length |-> length]

RECURSIVE AsrunsLoop(_, _, _, _)
AsrunsLoop(seq, i, current_run, out) ==
    IF i > Len(seq) THEN Append(out, current_run)
    ELSE IF seq[i] = current_run.value
         THEN AsrunsLoop(seq, i + 1,
                         Run(current_run.value, current_run.length + 1), out)
         ELSE AsrunsLoop(seq, i + 1, Run(seq[i], 1), Append(out, current_run))

\* asruns without the final yield of the loop's else clause.
asrunsNoFinalYield(seq) ==
    LET rs == AsrunsLoop(seq, 1, Run(seq[1], 0), <<>>)
    IN  SubSeq(rs, 1, Len(rs) - 1)

\* The runs yielded for a non-empty sequence, in order.
asruns(seq) == AsrunsLoop(seq, 1, Run(seq[1], 0), <<>>)

-----------------------------------------------------------------------------
(* Harness: elected and binary_stattest *)

\* The sequence has two distinct values, or the candidate given is one of its values.
BinaryOk(s, cand) ==
    IF cand = <<>> THEN Len(SeriesUnique(s)) = 2
    ELSE cand[1] \in Range(SeriesUnique(s))

\* The candidates the call may run with: the one given, else one elected
\* among the distinct values.
Elected(s, cand) ==
    IF cand = <<>> THEN Range(SeriesUnique(s)) ELSE {cand[1]}

-----------------------------------------------------------------------------
(* longest_runs *)

\* Regime with the boundary 6272 taken into the first regime.
RegimeInclusive(n) ==
    IF n <= 6272 THEN [blocksize |-> 8, nblocks |-> 16, freqbinranges |-> <<1, 2, 3, 4>>]
    ELSE IF n < 750000
         THEN [blocksize |-> 128, nblocks |-> 49,
               freqbinranges |-> <<4, 5, 6, 7, 8, 9>>]
         ELSE [blocksize |-> 10000, nblocks |-> 75,
               freqbinranges |-> <<10, 11, 12, 13, 14, 15, 16>>]

Regime(n) ==
    IF n < 6272 THEN [blocksize |-> 8, nblocks |-> 16, freqbinranges |-> <<1, 2, 3, 4>>]
    ELSE IF n < 750000
         THEN [blocksize |-> 128, nblocks |-> 49,
               freqbinranges |-> <<4, 5, 6, 7, 8, 9>>]
         ELSE [blocksize |-> 10000, nblocks |-> 75,
               freqbinranges |-> <<10, 11, 12, 13, 14, 15, 16>>]

\* The reference probabilities, times 10000.
probabilities ==
    [b \in {8, 128, 512, 1000, 10000} |->
        CASE b = 8 -> <<2148, 3672, 2305, 1875>>
          [] b = 128 -> <<1174, 2430, 2493, 1752, 1027, 1124>>
          [] b = 512 -> <<1170, 2460, 2523, 1755, 1027, 1124>>
          [] b = 1000 -> <<1307, 2437, 2452, 1714, 1002, 1088>>
          [] b = 10000 -> <<882, 2092, 2483, 1933, 1208, 675, 727>>]

\* The bin index freqbin returns: -1 stands for falling off the end (None).
freqbin(length, ranges) ==
    LET minrange == ranges[1]
        maxrange == ranges[Len(ranges)]
    IN  IF length <= minrange THEN 0
        ELSE IF minrange < length /\ length < maxrange
             THEN IF \E i \in 1..(Len(ranges) - 2) : ranges[i + 1] = length
                  THEN CHOOSE i \in 1..(Len(ranges) - 2) : ranges[i + 1] = length
                  ELSE -1
             ELSE Len(ranges)

RECURSIVE MaxRunLoop(_, _, _, _)
MaxRunLoop(rs, i, cand, maxlen) ==
    IF i > Len(rs) THEN maxlen
    ELSE IF rs[i].value = cand /\ rs[i].length > maxlen
         THEN MaxRunLoop(rs, i + 1, cand, rs[i].length)
         ELSE MaxRunLoop(rs, i + 1, cand, maxlen)

\* The longest run of the candidate in a chunk, 0 when it has none.
ChunkMaxlen(chunk, cand) == MaxRunLoop(asruns(chunk), 1, cand, 0)

\* freqbins[freqbin(length)] += 1 over the lengths from the i-th on; the
\* sequence <<>> stands for the IndexError of an index outside the list.
RECURSIVE BinLoop(_, _, _, _)
BinLoop(lengths, i, ranges, bins) ==
    IF i > Len(lengths) THEN bins
    ELSE LET b == freqbin(lengths[i], ranges)
         IN  IF b < 0 \/ b >= Len(bins) THEN <<>>
             ELSE BinLoop(lengths, i + 1, ranges,
                          [bins EXCEPT ![b + 1] = bins[b + 1] + 1])

LongestLengths == {127, 128, 135, 136, 6271, 6272, 749999, 750000}

InitLongest ==
    /\ test = "longest_runs"
    /\ \E n \in LongestLengths, p \in Patterns : series = [n |-> n, pat |-> p]
    /\ candidate \in {<<>>} \cup {<<v>> : v \in Values}
    /\ template = <<>>
    /\ nblocks = 0
    /\ pc = "call"
    /\ error = ""
    /\ blocksize = 0
    /\ freqbinranges = <<>>
    /\ maxlenprobabilities = <<>>
    /\ maxlengths = <<>>
    /\ freqbins = <<>>
    /\ yielded = <<>>
    /\ nruns = 0
    /\ block_matches = <<>>
    /\ tallies = <<>>
    /\ warnings = {}
    /\ result = <<>>
    /\ SpectralIdle /\ CliIdle /\ StoreIdle

\* @elected @binary_stattest: the arity check and the election of the candidate.
BinaryCall ==
    /\ pc = "call"
    /\ test \in {"runs", "longest_runs"}
    /\ IF BinaryOk(series, candidate)
       THEN /\ \E c \in Elected(series, candidate) : candidate' = <<c>>
            /\ pc' = "body"
            /\ error' = ""
       ELSE /\ pc' = "failed"
            /\ error' = "NonBinarySequenceError"
            /\ UNCHANGED candidate
    /\ UNCHANGED <<spectralVars, cliVars, storeVars>>
    /\ UNCHANGED <<test, series, template, nblocks, blocksize, freqbinranges,
                   maxlenprobabilities, maxlengths, freqbins, yielded, nruns,
                   block_matches, tallies, warnings, result>>

\* Lines 60-107: the regime and its probabilities, chosen by n.
LongestRunsConstants ==
    /\ pc = "body"
    /\ test = "longest_runs"
    /\ IF series.n < 128
       THEN /\ pc' = "failed"
            /\ error' = "ValueError"
            /\ UNCHANGED <<blocksize, nblocks, freqbinranges, maxlenprobabilities>>
       ELSE LET r == Regime(series.n)
            IN  /\ blocksize' = r.blocksize
                /\ nblocks' = r.nblocks
                /\ freqbinranges' = r.freqbinranges
                /\ IF r.blocksize \in DOMAIN probabilities
                   THEN /\ maxlenprobabilities' = probabilities[r.blocksize]
                        /\ pc' = "constants"
                        /\ error' = ""
                   ELSE /\ maxlenprobabilities' = <<>>
                        /\ pc' = "failed"
                        /\ error' = "NotImplementedError"
    /\ UNCHANGED <<spectralVars, cliVars, storeVars>>
    /\ UNCHANGED <<test, series, candidate, template, maxlengths, freqbins,
                   yielded, nruns, block_matches, tallies, warnings, result>>

\* Lines 113-122: the longest candidate run of every chunk.
LongestRunsScan ==
    /\ pc = "constants"
    /\ test = "longest_runs"
    /\ series.n <= MaxScanLen
    /\ maxlengths' = [c \in 1..NChunks(series, blocksize) |->
                         ChunkMaxlen(Chunk(series, c, blocksize), candidate[1])]
    /\ pc' = "scanned"
    /\ UNCHANGED <<spectralVars, cliVars, storeVars>>
    /\ UNCHANGED <<test, series, candidate, template, nblocks, error, blocksize,
                   freqbinranges, maxlenprobabilities, freqbins, yielded, nruns,
                   block_matches, tallies, warnings, result>>

\* Lines 124-126: the bin counts.
LongestRunsBins ==
    /\ pc = "scanned"
    /\ test = "longest_runs"
    /\ LET bins == BinLoop(maxlengths, 1, freqbinranges,
                           [i \in 1..Len(freqbinranges) |-> 0])
       IN  IF bins = <<>>
           THEN /\ pc' = "failed"
                /\ error' = "IndexError"
                /\ UNCHANGED freqbins
           ELSE /\ pc' = "binned"
                /\ error' = ""
                /\ freqbins' = bins
    /\ UNCHANGED <<spectralVars, cliVars, storeVars>>
    /\ UNCHANGED <<test, series, candidate, template, nblocks, blocksize,
                   freqbinranges, maxlenprobabilities, maxlengths, yielded, nruns,
                   block_matches, tallies, warnings, result>>

\* Lines 128-136: the statistic and p.  Each partial is kept exactly as the
\* deviation bincount - nblocks * prob (times 10000) and the divisor
\* nblocks * prob (times 10000); df is the degrees of freedom given to gammaincc.
LongestRunsResult ==
    /\ pc = "binned"
    /\ test = "longest_runs"
    /\ result' = <<[partials |->
                       [i \in 1..(IF Len(freqbins) < Len(maxlenprobabilities)
                                  THEN Len(freqbins) ELSE Len(maxlenprobabilities)) |->
                           [dev |-> 10000 * freqbins[i]
                                      - nblocks * maxlenprobabilities[i],
                            div |-> nblocks * maxlenprobabilities[i]]],
                    df |-> Len(freqbinranges) - 1]>>
    /\ pc' = "done"
    /\ UNCHANGED <<spectralVars, cliVars, storeVars>>
    /\ UNCHANGED <<test, series, candidate, template, nblocks, error, blocksize,
                   freqbinranges, maxlenprobabilities, maxlengths, freqbins,
                   yielded, nruns, block_matches, tallies, warnings>>

NextLongest ==
    \/ BinaryCall
    \/ LongestRunsConstants
    \/ LongestRunsScan
    \/ LongestRunsBins
    \/ LongestRunsResult

SpecLongest == InitLongest /\ [][NextLongest]_vars

-----------------------------------------------------------------------------
(* runs *)

\* series.value_counts()[value]
Count(s, value) == Cardinality({i \in 0..(s.n - 1) : At(s, i) = value})

Abs(x) == IF x < 0 THEN -x ELSE x

InitRuns ==
    /\ test = "runs"
    /\ \E n \in 0..MaxShort, p \in Patterns :
          /\ Len(p) <= n \/ Len(p) = 1
          /\ series = [n |-> n, pat |-> p]
    /\ candidate \in {<<>>} \cup {<<v>> : v \in Values}
    /\ template = <<>>
    /\ nblocks = 0
    /\ pc = "call"
    /\ error = ""
    /\ blocksize = 0
    /\ freqbinranges = <<>>
    /\ maxlenprobabilities = <<>>
    /\ maxlengths = <<>>
    /\ freqbins = <<>>
    /\ yielded = <<>>
    /\ nruns = 0
    /\ block_matches = <<>>
    /\ tallies = <<>>
    /\ warnings = {}
    /\ result = <<>>
    /\ SpectralIdle /\ CliIdle /\ StoreIdle

\* Lines 36-50.  With n, c = ncandidates and r = nruns, the argument of erfc
\* is |r - 2c(1 - c/n)| / (2 sqrt(2n) (c/n)(1 - c/n)); it is kept as the
\* exact integers  num = |r n - 2c(n - c)|  and  den = c(n - c), which are
\* its numerator and denominator up to the positive factors n and
\* 2 sqrt(2n) / n^2.  A zero divisor either raises ZeroDivisionError (Python
\* floats) or gives an infinite or NaN quotient (numpy floats), after which
\* the TestResult is returned.
RunsBody ==
    /\ pc = "body"
    /\ test = "runs"
    /\ LET n == series.n
           ncandidates == Count(series, candidate[1])
           rs == asruns(Items(series))
           num == Abs(Len(rs) * n - 2 * ncandidates * (n - ncandidates))
           den == ncandidates * (n - ncandidates)
       IN  /\ yielded' = rs
           /\ nruns' = Len(rs)
           /\ \/ /\ den # 0
                 /\ result' = <<[statistic |-> Len(rs), num |-> num, den |-> den]>>
                 /\ pc' = "done"
                 /\ error' = ""
              \/ /\ den = 0
                 /\ result' = <<[statistic |-> Len(rs), num |-> num, den |-> den]>>
                 /\ pc' = "done"
                 /\ error' = ""
              \/ /\ den = 0
                 /\ result' = <<>>
                 /\ pc' = "failed"
                 /\ error' = "ZeroDivisionError"
    /\ UNCHANGED <<spectralVars, cliVars, storeVars>>
    /\ UNCHANGED <<test, series, candidate, template, nblocks, blocksize,
                   freqbinranges, maxlenprobabilities, maxlengths, freqbins,
                   block_matches, tallies, warnings>>

NextRuns ==
    \/ BinaryCall
    \/ RunsBody

SpecRuns == InitRuns /\ [][NextRuns]_vars

-----------------------------------------------------------------------------
(* Template matching *)

Min(a, b) == IF a < b THEN a ELSE b

\* floor(sqrt(n))
FloorSqrt(n) == CHOOSE r \in 0..n : r * r <= n /\ (r + 1) * (r + 1) > n

\* Values an explicit template may hold: those of the series and one more.
TemplateValues == Values \cup {2}

Templates == UNION {[1..k -> TemplateValues] : k \in 1..MaxTemplate}

\* stattest(min_input=...): the least length each test declares.
MinInput(t) == IF t = "non_overlapping_template_matching" THEN 288 ELSE 0

\* all(x == y for x, y in zip(window, template_tup)) for the window
\* block_tup[pointer : pointer + template_size]: zip stops at the shorter of
\* the two, and the slice is cut at the end of the block.
WindowMatches(block_tup, template_tup, pointer) ==
    \A j \in 1..Min(Len(template_tup), Len(block_tup) - pointer) :
        block_tup[pointer + j] = template_tup[j]

RECURSIVE NonOverlappingLoop(_, _, _, _)
NonOverlappingLoop(block_tup, template_tup, pointer, matches) ==
    LET boundary == Len(block_tup) - Len(template_tup)
    IN  IF pointer < boundary
        THEN IF WindowMatches(block_tup, template_tup, pointer)
             THEN NonOverlappingLoop(block_tup, template_tup,
                                     pointer + Len(template_tup), matches + 1)
             ELSE NonOverlappingLoop(block_tup, template_tup, pointer + 1, matches)
        ELSE matches

\* Lines 109-120: the matches of one block.
NonOverlappingMatches(block_tup, template_tup) ==
    NonOverlappingLoop(block_tup, template_tup, 0, 0)

\* The overlapping scan written as the non-overlapping one is: it skips the
\* template after a match.
OverlappingMatchesSkipping(block_tup, template_tup, bsize) ==
    NonOverlappingLoop(block_tup, template_tup, 0, 0)

\* Lines 208-214: the matches of one block.
OverlappingMatches(block_tup, template_tup, bsize) ==
    Cardinality({pointer \in 0..(bsize - 1) :
                    WindowMatches(block_tup, template_tup, pointer)})

\* Lines 218-221
Tally(matches) ==
    [i \in 1..6 |-> Cardinality({b \in DOMAIN matches : Min(matches[b], 5) = i - 1})]

TemplateLengths == {287, 288}

\* Block counts tried: the default 8 (blocks of 36), 57 (blocks of 5),
\* 101 (blocks of 2, of which the series holds more than 101) and 289 (more
\* blocks than elements: blocks of 0).
TemplateNblocks == {8, 57, 101, 289}

InitTemplate ==
    /\ test \in {"non_overlapping_template_matching", "overlapping_template_matching"}
    /\ \E n \in TemplateLengths, p \in Patterns : series = [n |-> n, pat |-> p]
    /\ candidate = <<>>
    /\ template \in {<<>>} \cup {<<t>> : t \in Templates}
    /\ nblocks \in TemplateNblocks
    /\ pc = "call"
    /\ error = ""
    /\ blocksize = 0
    /\ freqbinranges = <<>>
    /\ maxlenprobabilities = <<>>
    /\ maxlengths = <<>>
    /\ freqbins = <<>>
    /\ yielded = <<>>
    /\ nruns = 0
    /\ block_matches = <<>>
    /\ tallies = <<>>
    /\ warnings = {}
    /\ result = <<>>
    /\ SpectralIdle /\ CliIdle /\ StoreIdle

\* @stattest(min_input=...): the minimum length.
StattestCall ==
    /\ pc = "call"
    /\ test \in {"non_overlapping_template_matching", "overlapping_template_matching"}
    /\ IF series.n < MinInput(test)
       THEN pc' = "failed" /\ error' = "MinimumInputError"
       ELSE pc' = "template" /\ error' = ""
    /\ UNCHANGED <<spectralVars, cliVars, storeVars>>
    /\ UNCHANGED <<test, series, candidate, template, nblocks, blocksize,
                   freqbinranges, maxlenprobabilities, maxlengths, freqbins,
                   yielded, nruns, block_matches, tallies, warnings, result>>

\* The template the wrapper derives when none is given: the first element of
\* product(series.unique(), repeat=template_size).
DerivedTemplate(s) ==
    [i \in 1..Min(FloorSqrt(s.n), 9) |-> SeriesUnique(s)[1]]

\* The validation that looks at the template's first value only.
TemplateInSequenceFirstOnly(template_tup, s) ==
    template_tup[1] \in Range(SeriesUnique(s))

\* Lines 44-46: no value of template.unique() is missing from series.unique().
TemplateInSequence(template_tup, s) ==
    \A value \in Range(unique(template_tup)) : value \in Range(SeriesUnique(s))

\* Lines 32-50: the template decorator's wrapper.
TemplateWrapper ==
    /\ pc = "template"
    /\ IF template = <<>>
       THEN /\ template' = <<DerivedTemplate(series)>>
            /\ pc' = "body"
            /\ error' = ""
       ELSE IF ~TemplateInSequence(template[1], series)
            THEN /\ pc' = "failed"
                 /\ error' = "TemplateContainsElementsNotInSequenceError"
                 /\ UNCHANGED template
            ELSE /\ pc' = "body"
                 /\ error' = ""
                 /\ UNCHANGED template
    /\ UNCHANGED <<spectralVars, cliVars, storeVars>>
    /\ UNCHANGED <<test, series, candidate, nblocks, blocksize, freqbinranges,
                   maxlenprobabilities, maxlengths, freqbins, yielded, nruns,
                   block_matches, tallies, warnings, result>>

\* Lines 91-98: the recommendations that fail.
FailedRecommendations(n, nb, bs) ==
    {rec \in {"nblocks <= 100", "blocksize > 0.01 * n", "nblocks == n // blocksize"} :
        \/ rec = "nblocks <= 100" /\ ~(nb <= 100)
        \/ rec = "blocksize > 0.01 * n" /\ ~(100 * bs > n)
        \/ rec = "nblocks == n // blocksize" /\ ~(nb = n \div bs)}

\* Line 94: the recommendations are evaluated as the dictionary is built, and
\* n // blocksize divides by zero when blocksize is 0.
RecommendationsRaise(bs) == bs = 0

\* Lines 100-137.  The p-value is gammaincc(nblocks / 2, statistic / 2); the
\* statistic sums one term per entry of block_matches.  matches_expect is
\* expect_num / 2^k and variance is var_num / 2^(2k).
NonOverlappingResult(matches, nb, bs, k) ==
    [nterms |-> Len(matches),
     dfx2 |-> nb,
     expect_num |-> bs - k + 1,
     var_num |-> bs * (2 ^ k - (2 * k - 1))]

\* Lines 105-120: the matches of every block.
NonOverlappingBlockMatches(s, template_tup, bs) ==
    [b \in 1..NChunks(s, bs) |-> NonOverlappingMatches(Chunk(s, b, bs), template_tup)]

\* Lines 87-137.
NonOverlappingBody ==
    /\ pc = "body"
    /\ test = "non_overlapping_template_matching"
    /\ LET n == series.n
           bs == n \div nblocks
           template_tup == template[1]
           k == Len(template_tup)
       IN  /\ blocksize' = bs
           /\ IF RecommendationsRaise(bs)
              THEN /\ pc' = "failed"
                   /\ error' = "ZeroDivisionError"
                   /\ UNCHANGED <<warnings, block_matches, result>>
              ELSE LET matches == NonOverlappingBlockMatches(series, template_tup, bs)
                   IN  /\ warnings' = FailedRecommendations(n, nblocks, bs)
                       /\ block_matches' = matches
                       /\ result' = <<NonOverlappingResult(matches, nblocks, bs, k)>>
                       /\ pc' = "done"
                       /\ error' = ""
    /\ UNCHANGED <<spectralVars, cliVars, storeVars>>
    /\ UNCHANGED <<test, series, candidate, template, nblocks,
                   freqbinranges, maxlenprobabilities, maxlengths, freqbins,
                   yielded, nruns, tallies>>

\* Lines 200-239.  The statistic sums (tally - nblocks * prob)^2 /
\* (nblocks * prob) over the 6 tallies; p is gammaincc(5 / 2, statistic / 2).
\* A blocksize of 0 leaves rawblocks no partition into n // blocksize blocks.
OverlappingBody ==
    /\ pc = "body"
    /\ test = "overlapping_template_matching"
    /\ LET n == series.n
           bs == n \div nblocks
           template_tup == template[1]
           k == Len(template_tup)
       IN  /\ blocksize' = bs
           /\ IF bs = 0
              THEN /\ pc' = "failed"
                   /\ error' = "ZeroDivisionError"
                   /\ UNCHANGED <<block_matches, tallies, result>>
              ELSE LET matches == [b \in 1..NChunks(series, bs) |->
                                     OverlappingMatches(Chunk(series, b, bs), template_tup, bs)]
                   IN  /\ block_matches' = matches
                       /\ tallies' = Tally(matches)
                       /\ result' = <<[nterms |-> 6,
                                       nblocks |-> nblocks,
                                       dfx2 |-> 5,
                                       lambda_num |-> bs - k + 1]>>
                       /\ pc' = "done"
                       /\ error' = ""
    /\ UNCHANGED <<spectralVars, cliVars, storeVars>>
    /\ UNCHANGED <<test, series, candidate, template, nblocks,
                   freqbinranges, maxlenprobabilities, maxlengths, freqbins,
                   yielded, nruns, warnings>>

NextTemplate ==
    \/ StattestCall
    \/ TemplateWrapper
    \/ NonOverlappingBody
    \/ OverlappingBody

SpecTemplate == InitTemplate /\ [][NextTemplate]_vars

-----------------------------------------------------------------------------
(* The spectral test: spectral (coinflip) and discrete_fourier_transform    *)
(* (rngtest), which share the body and differ in the progress observer.     *)

SpectralTests == {"spectral", "discrete_fourier_transform"}

\* ln(20) = log(1 / 0.05), times 10^6, rounded down.
LogTwentyMicro == 2995732

\* The transform is computed exactly for the lengths N whose cosines
\* cos(2 pi m / N) are halves of integers.
ExactTransformLengths == {2, 4, 6}

SpectralLengths == {n \in 2..7 : n \in ExactTransformLengths \/ n - 1 \in ExactTransformLengths}

\* 2 cos(2 pi m / N)
TwiceCos(m, N) ==
    LET r == m % N
    IN  CASE N = 2 -> IF r = 0 THEN 2 ELSE -2
          [] N = 4 -> IF r = 0 THEN 2 ELSE IF r = 2 THEN -2 ELSE 0
          [] N = 6 -> IF r = 0 THEN 2
                      ELSE IF r = 3 THEN -2
                      ELSE IF r \in {1, 5} THEN 1 ELSE -1

\* series.map({heads: 1, tails: -1})
Oscillations(s, heads) == [j \in 1..s.n |-> IF At(s, j - 1) = heads THEN 1 ELSE -1]

\* Twice the squared magnitude of the k-th element of fft(x):
\* |X_k|^2 = sum over j, l of x_j x_l cos(2 pi k (j - l) / N).
TwicePeakSquared(x, k) ==
    LET N == Len(x)
    IN  Sum([j \in 1..N |->
                Sum([l \in 1..N |-> x[j] * x[l] * TwiceCos(k * (j - l + N), N)])])

\* fourier[: n // 2], each peak as twice its square.
HalfFourier(x, n) == [k \in 1..Min(n \div 2, Len(x)) |-> TwicePeakSquared(x, k - 1)]

\* peak < threshold with threshold = sqrt(log(1 / 0.05) * n), squared and
\* scaled: no multiple of 10^6 lies between 2 LogTwentyMicro n and
\* 2 * 10^6 ln(20) n for the lengths modelled.
BelowThreshold(twice_peak_squared, n) ==
    twice_peak_squared * 1000000 < 2 * LogTwentyMicro * n

\* The check of the truncated series made on a series that still holds a value.
TruncatedNotEmpty(s) == Len(SeriesUnique(s)) >= 1

\* series.nunique() != 2 does not hold of the truncated series.
TruncatedIsBinary(s) == Len(SeriesUnique(s)) = 2

\* series[:-1]
DropLast(s) == [s EXCEPT !.n = s.n - 1]

\* Lines 59-68: the result computed from nbelow and n.  nbelow_expect is
\* 0.95 n / 2 = 19 n / 40 and diff = nbelow - nbelow_expect, both kept times
\* 40; normdiff = diff / sqrt(n * 0.95 * 0.05 / 4) and p = erfc(|normdiff| /
\* sqrt(2)) are functions of diff and of the n kept as norm_n.
SpectralResultOf(below, n) ==
    [nbelow |-> below,
     nbelow_expect_x40 |-> 19 * n,
     diff_x40 |-> 40 * below - 19 * n,
     norm_n |-> n]

\* Lines 42-68 for a series of even length and the n the body holds.
SpectralCompute(s, heads, n) ==
    LET half == HalfFourier(Oscillations(s, heads), n)
    IN  SpectralResultOf(Cardinality({k \in DOMAIN half : BelowThreshold(half[k], n)}), n)

InitSpectral ==
    /\ test \in SpectralTests
    /\ \E n \in SpectralLengths : \E p \in [1..n -> Values] : series = [n |-> n, pat |-> p]
    /\ candidate = <<>>
    /\ template = <<>>
    /\ nblocks = 0
    /\ pc = "call"
    /\ error = ""
    /\ blocksize = 0
    /\ freqbinranges = <<>>
    /\ maxlenprobabilities = <<>>
    /\ maxlengths = <<>>
    /\ freqbins = <<>>
    /\ yielded = <<>>
    /\ nruns = 0
    /\ block_matches = <<>>
    /\ tallies = <<>>
    /\ warnings = {}
    /\ result = <<>>
    /\ SpectralIdle /\ CliIdle /\ StoreIdle

\* @randtest: the sequence is binary; one of its two values is heads.
SpectralCall ==
    /\ pc = "call"
    /\ test \in SpectralTests
    /\ IF Len(SeriesUnique(series)) = 2
       THEN /\ \E heads \in Range(SeriesUnique(series)) : candidate' = <<heads>>
            /\ pc' = "body"
            /\ error' = ""
       ELSE /\ pc' = "failed"
            /\ error' = "NonBinarySequenceError"
            /\ UNCHANGED candidate
    /\ UNCHANGED <<spectralVars, cliVars, storeVars>>
    /\ UNCHANGED <<test, series, template, nblocks, blocksize, freqbinranges,
                   maxlenprobabilities, maxlengths, freqbins, yielded, nruns,
                   block_matches, tallies, warnings, result>>

\* check_recommendations(ctx, {"n >= 1000": n >= 1000}) / randtest(rec_input=1000)
SpectralFailures(n) == IF n >= 1000 THEN {} ELSE {"n >= 1000"}

\* Lines 31-40: n, the total of the task, the recommendations and the
\* truncation of an odd-length series.
SpectralTruncate ==
    /\ pc = "body"
    /\ test \in SpectralTests
    /\ len_n' = series.n
    /\ task' = IF test = "spectral" THEN [task EXCEPT !.total = 4] ELSE task
    /\ warnings' = SpectralFailures(series.n)
    /\ IF series.n % 2 # 0
       THEN /\ series' = DropLast(series)
            /\ IF TruncatedIsBinary(DropLast(series))
               THEN pc' = "truncated" /\ error' = ""
               ELSE pc' = "failed" /\ error' = "NonBinaryTruncatedSequenceError"
       ELSE /\ pc' = "truncated"
            /\ error' = ""
            /\ UNCHANGED series
    /\ UNCHANGED <<fourier, nbelow, cliVars, storeVars>>
    /\ UNCHANGED <<test, candidate, template, nblocks, blocksize, freqbinranges,
                   maxlenprobabilities, maxlengths, freqbins, yielded, nruns,
                   block_matches, tallies, result>>

Advance(t, tst) == IF tst = "spectral" THEN [t EXCEPT !.advanced = t.advanced + 1] ELSE t

\* Lines 42-50: the threshold and the expected count (functions of len_n),
\* then the transform of the oscillations, cut at n // 2.
SpectralTransform ==
    /\ pc = "truncated"
    /\ test \in SpectralTests
    /\ fourier' = HalfFourier(Oscillations(series, candidate[1]), len_n)
    /\ task' = Advance(Advance(task, test), test)
    /\ pc' = "transformed"
    /\ UNCHANGED <<len_n, nbelow, cliVars, storeVars>>
    /\ UNCHANGED testVarsButPc

\* Lines 52-57: the peaks below the threshold.
SpectralPeaks ==
    /\ pc = "transformed"
    /\ test \in SpectralTests
    /\ nbelow' = Cardinality({k \in DOMAIN fourier : BelowThreshold(fourier[k], len_n)})
    /\ task' = Advance(task, test)
    /\ pc' = "counted"
    /\ UNCHANGED <<len_n, fourier, cliVars, storeVars>>
    /\ UNCHANGED testVarsButPc

\* Lines 59-68: the normalised difference, p and the result.
SpectralResult ==
    /\ pc = "counted"
    /\ test \in SpectralTests
    /\ result' = <<SpectralResultOf(nbelow, len_n)>>
    /\ task' = Advance(task, test)
    /\ pc' = "done"
    /\ UNCHANGED <<len_n, fourier, nbelow, cliVars, storeVars>>
    /\ UNCHANGED <<test, series, candidate, template, nblocks, error, blocksize,
                   freqbinranges, maxlenprobabilities, maxlengths, freqbins,
                   yielded, nruns, block_matches, tallies, warnings>>

NextSpectral ==
    \/ SpectralCall
    \/ SpectralTruncate
    \/ SpectralTransform
    \/ SpectralPeaks
    \/ SpectralResult

SpecSpectral == InitSpectral /\ [][NextSpectral]_vars

-----------------------------------------------------------------------------
(* local_run: the report of the results (rngtest/cli.py) *)

\* What result.report() does: it returns markup, raises NotImplementedError
\* (no renderer for the result) or raises another exception while rendering.
ReportOutcomes == {"markup", "NotImplementedError", "Exception"}

\* The markup of the i-th result.
Markup(i) == i

InitCli ==
    /\ TestIdle
    /\ pc = "call"
    /\ error = ""
    /\ report \in {<<>>, <<"report.html">>}
    /\ results \in UNION {[1..k -> ReportOutcomes] : k \in 1..MaxResults}
    /\ position = 0
    /\ html = <<>>
    /\ report_file = <<>>
    /\ echoed = <<>>
    /\ SpectralIdle /\ StoreIdle

\* Lines 93-94: if report: html = []
LocalRunReport ==
    /\ test = ""
    /\ pc = "call"
    /\ results # <<>>
    /\ html' = <<>>
    /\ pc' = IF report # <<>> THEN "rendering" ELSE "done"
    /\ UNCHANGED <<report, results, position, report_file, echoed>>
    /\ UNCHANGED <<spectralVars, storeVars>>
    /\ UNCHANGED testVarsButPc

\* Lines 95-100: one turn of the loop.  Only NotImplementedError is caught;
\* any other exception leaves the loop and the command.
RenderResult ==
    /\ pc = "rendering"
    /\ position < Len(results)
    /\ LET outcome == results[position + 1]
       IN  CASE outcome = "markup" ->
                  /\ html' = Append(html, Markup(position + 1))
                  /\ position' = position + 1
                  /\ UNCHANGED <<pc, error, echoed>>
             [] outcome = "NotImplementedError" ->
                  /\ echoed' = Append(echoed, "No report markup provided")
                  /\ position' = position + 1
                  /\ UNCHANGED <<pc, error, html>>
             [] OTHER ->
                  /\ pc' = "failed"
                  /\ error' = outcome
                  /\ UNCHANGED <<position, html, echoed>>
    /\ UNCHANGED <<report, results, report_file>>
    /\ UNCHANGED <<spectralVars, storeVars>>
    /\ UNCHANGED <<test, series, candidate, template, nblocks, blocksize,
                   freqbinranges, maxlenprobabilities, maxlengths, freqbins,
                   yielded, nruns, block_matches, tallies, warnings, result>>

\* Lines 102-107: the markup collected is written, if there is any.
WriteReport ==
    /\ pc = "rendering"
    /\ position = Len(results)
    /\ IF Len(html) # 0
       THEN report_file' = <<html>> /\ UNCHANGED echoed
       ELSE echoed' = Append(echoed, "No report markup available!") /\ UNCHANGED report_file
    /\ pc' = "done"
    /\ UNCHANGED <<report, results, position, html>>
    /\ UNCHANGED <<spectralVars, storeVars>>
    /\ UNCHANGED testVarsButPc

NextCli ==
    \/ LocalRunReport
    \/ RenderResult
    \/ WriteReport

SpecCli == InitCli /\ [][NextCli]_vars

-----------------------------------------------------------------------------
(* The store: load, drop and open_data (prng/store.py) *)

\* The names a spec file gives, and the names drop and open_data are given.
SpecNames == {"a", "A", "b"}

\* slugify(spec["name"]): lower case.
slugify(name) == IF name = "A" THEN "a" ELSE name

StoreNames == {slugify(name) : name \in SpecNames}

\* The store directory data_dir / store_name exists.
StoreExists(store_name) == \E s \in stores : s.name = store_name

\* Lines 74-94: a spec without sub-tables has one profile, its own keys.
spec_profiles(spec_name) == <<[name |-> spec_name]>>

InitStore ==
    /\ TestIdle
    /\ pc = "call"
    /\ error = ""
    /\ manifest = {}
    /\ stores = {}
    /\ last = <<>>
    /\ SpectralIdle /\ CliIdle

\* Lines 97-120.  mkdir(store_path, exist_ok=overwrite) raises when the
\* directory exists and overwrite is False; otherwise both files are written
\* and the manifest is rewritten with the store's entry.
load(spec_name, df, overwrite) ==
    LET store_name == slugify(spec_name)
    IN  /\ IF StoreExists(store_name) /\ ~overwrite
           THEN /\ last' = <<[op |-> "load", name |-> store_name,
                              outcome |-> "DataStoreExistsError", data |-> 0]>>
                /\ UNCHANGED <<manifest, stores>>
           ELSE /\ stores' = {s \in stores : s.name # store_name} \cup
                                {[name |-> store_name, data |-> df,
                                  profiles |-> spec_profiles(spec_name)]}
                /\ manifest' = manifest \cup {store_name}
                /\ last' = <<[op |-> "load", name |-> store_name,
                              outcome |-> "ok", data |-> 0]>>
        /\ UNCHANGED <<testVars, spectralVars, cliVars>>

\* Lines 161-174: rm_tree removes the files and the directory; rmdir of a
\* directory that does not exist raises.  The manifest is not opened.
drop(store_name) ==
    /\ IF StoreExists(store_name)
       THEN /\ stores' = {s \in stores : s.name # store_name}
            /\ last' = <<[op |-> "drop", name |-> store_name,
                          outcome |-> "ok", data |-> 0]>>
       ELSE /\ last' = <<[op |-> "drop", name |-> store_name,
                          outcome |-> "FileNotFoundError", data |-> 0]>>
            /\ UNCHANGED stores
    /\ UNCHANGED manifest
    /\ UNCHANGED <<testVars, spectralVars, cliVars>>

\* Lines 132-148: the path comes from the manifest (ManifestError when the
\* name is not a key), then the data file is opened.
open_data(store_name) ==
    /\ IF store_name \notin manifest
       THEN last' = <<[op |-> "open_data", name |-> store_name,
                       outcome |-> "ManifestError", data |-> 0]>>
       ELSE IF ~StoreExists(store_name)
            THEN last' = <<[op |-> "open_data", name |-> store_name,
                            outcome |-> "FileNotFoundError", data |-> 0]>>
            ELSE \E s \in stores :
                    /\ s.name = store_name
                    /\ last' = <<[op |-> "open_data", name |-> store_name,
                                  outcome |-> "ok", data |-> s.data]>>
    /\ UNCHANGED <<manifest, stores>>
    /\ UNCHANGED <<testVars, spectralVars, cliVars>>

NextStore ==
    \/ \E spec_name \in SpecNames, df \in 1..MaxData, overwrite \in BOOLEAN :
          load(spec_name, df, overwrite)
    \/ \E store_name \in StoreNames : drop(store_name)
    \/ \E store_name \in StoreNames : open_data(store_name)

SpecStore == InitStore /\ [][NextStore]_vars

-----------------------------------------------------------------------------
(* All the tests *)

Init == InitRuns \/ InitLongest \/ InitTemplate \/ InitSpectral

Next == NextRuns \/ NextLongest \/ NextTemplate \/ NextSpectral

Spec == Init /\ [][Next]_vars

-----------------------------------------------------------------------------
(* Properties of longest_runs *)

\* The bin the documented bucketing gives a longest-run length.
C1_Bin(length, ranges) ==
    IF length <= ranges[1] THEN 0
    ELSE IF length >= ranges[Len(ranges)] THEN Len(ranges) - 1
    ELSE CHOOSE j \in 0..(Len(ranges) - 1) : ranges[j + 1] = length

\* C1: every longest-run length of a scanned block is bucketed into a valid
\* bin 0..nbins-1 (at or below the lowest boundary: bin 0; at or above the
\* highest: the last bin; an intermediate boundary: its own bin) and the
\* increment of that bin raises no error.
C1_BucketingValid ==
    test = "longest_runs" =>
        /\ error # "IndexError"
        /\ \A i \in DOMAIN maxlengths :
              /\ freqbin(maxlengths[i], freqbinranges) \in 0..(Len(freqbinranges) - 1)
              /\ freqbin(maxlengths[i], freqbinranges)
                    = C1_Bin(maxlengths[i], freqbinranges)

\* C6: longest_runs fails for every n < 128 before any block is scanned, and
\* otherwise its blocksize, nblocks and bins are those of the regime of n:
\* [128, 6272) -> 8, 16, 4 bins; [6272, 750000) -> 128, 49, 6 bins;
\* [750000, ...) -> 10000, 75, 7 bins; and the probability table selected
\* has as many entries as the regime has bins.
C6_RegimeByLength ==
    test = "longest_runs" =>
        /\ series.n < 128 =>
              /\ pc \in {"call", "body", "failed"}
              /\ pc = "failed" => error \in {"NonBinarySequenceError", "ValueError"}
              /\ maxlengths = <<>> /\ freqbins = <<>> /\ result = <<>>
        /\ error = "ValueError" => series.n < 128
        /\ (series.n >= 128 /\ pc \notin {"call", "body"} /\ error # "NonBinarySequenceError") =>
              /\ error # "NotImplementedError"
              /\ Len(maxlenprobabilities) = Len(freqbinranges)
              /\ series.n < 6272 =>
                    blocksize = 8 /\ nblocks = 16 /\ Len(freqbinranges) = 4
              /\ (series.n >= 6272 /\ series.n < 750000) =>
                    blocksize = 128 /\ nblocks = 49 /\ Len(freqbinranges) = 6
              /\ series.n >= 750000 =>
                    blocksize = 10000 /\ nblocks = 75 /\ Len(freqbinranges) = 7

\* A series of exactly 6272 elements has been given the second regime.
C6_Witness ==
    /\ test = "longest_runs" /\ pc = "constants"
    /\ series.n = 6272 /\ blocksize = 128 /\ nblocks = 49

\* C7: the blocks scanned are exactly nblocks, so the observed bin counts
\* sum to the nblocks that multiplies the reference probabilities.
C7_ScansNblocks ==
    (test = "longest_runs" /\ pc \in {"scanned", "binned", "done"}) =>
        /\ Len(maxlengths) = nblocks
        /\ pc \in {"binned", "done"} => Sum(freqbins) = nblocks

-----------------------------------------------------------------------------
(* Properties of runs and asruns *)

RECURSIVE Expand(_, _)
\* The concatenation of the runs from the i-th on.
Expand(rs, i) ==
    IF i > Len(rs) THEN <<>>
    ELSE [k \in 1..rs[i].length |-> rs[i].value] \o Expand(rs, i + 1)

Alternating(seq) == \A i \in 1..(Len(seq) - 1) : seq[i] # seq[i + 1]

Uniform(seq) == \A i \in 1..(Len(seq) - 1) : seq[i] = seq[i + 1]

\* C5: the runs asruns yields for a non-empty sequence of length n are its
\* maximal runs in order: every length is at least 1, adjacent runs differ in
\* value, the lengths sum to n and the runs concatenate to the sequence; a
\* uniform sequence (length 1 included) gives one run of length n, an
\* alternating one gives n runs, and the count of the runs is the statistic
\* the runs test returns.
C5_AsrunsDecomposes ==
    (test = "runs" /\ pc \in {"done", "failed"} /\ error # "NonBinarySequenceError") =>
        LET seq == Items(series)
        IN  /\ series.n >= 1
            /\ \A i \in DOMAIN yielded : yielded[i].length >= 1
            /\ \A i \in 1..(Len(yielded) - 1) : yielded[i].value # yielded[i + 1].value
            /\ Sum([i \in DOMAIN yielded |-> yielded[i].length]) = series.n
            /\ Expand(yielded, 1) = seq
            /\ Uniform(seq) => yielded = <<Run(seq[1], series.n)>>
            /\ Alternating(seq) => Len(yielded) = series.n
            /\ nruns = Len(yielded)
            /\ pc = "done" => result[1].statistic = Len(yielded)

\* The runs test has returned the statistic 4 for 0 1 0 1.
C5_Witness ==
    /\ test = "runs" /\ pc = "done"
    /\ Items(series) = <<0, 1, 0, 1>>
    /\ Len(yielded) = 4 /\ result[1].statistic = 4

\* C10: when the candidate's proportion is 0 or 1 the runs test fails with
\* DegenerateProportionError and returns no TestResult: the p formula is
\* never evaluated with a zero divisor.
C10_DegenerateRaises ==
    (/\ test = "runs" /\ pc \in {"done", "failed"}
     /\ error # "NonBinarySequenceError"
     /\ Count(series, candidate[1]) \in {0, series.n}) =>
        /\ error = "DegenerateProportionError"
        /\ result = <<>>

-----------------------------------------------------------------------------
(* Properties of the template-matching tests *)

TemplateTests == {"non_overlapping_template_matching", "overlapping_template_matching"}

\* The whole template occurs in the block at the 0-based position p.
OccursAt(block, tpl, p) ==
    /\ p + Len(tpl) <= Len(block)
    /\ \A j \in 1..Len(tpl) : block[p + j] = tpl[j]

RECURSIVE C2_Scan(_, _, _, _)
\* The left-to-right scan over the start positions 0..Len(block)-Len(tpl).
C2_Scan(block, tpl, p, count) ==
    IF p > Len(block) - Len(tpl) THEN count
    ELSE IF OccursAt(block, tpl, p)
         THEN C2_Scan(block, tpl, p + Len(tpl), count + 1)
         ELSE C2_Scan(block, tpl, p + 1, count)

\* C2: the non-overlapping count of each block is that of the left-to-right
\* scan over every start position 0..blocksize-k, the last one included.
C2_NonOverlappingScan ==
    (test = "non_overlapping_template_matching" /\ pc = "done") =>
        \A b \in DOMAIN block_matches :
            block_matches[b] = C2_Scan(Chunk(series, b, blocksize), template[1], 0, 0)

\* C3: the overlapping count of each block is the number of start positions
\* at which the whole template occurs; a shorter window at the end of the
\* block is no match.
C3_OverlappingCount ==
    (test = "overlapping_template_matching" /\ pc = "done") =>
        \A b \in DOMAIN block_matches :
            block_matches[b] =
                Cardinality({p \in 0..(blocksize - 1) :
                                OccursAt(Chunk(series, b, blocksize), template[1], p)})

\* C4: on the same block and template the overlapping count is at least the
\* non-overlapping count, and it is greater when the template is a repeated
\* value (at least twice) and the block, longer than the template, holds
\* that value only.
C4_OverlappingAtLeast ==
    (test \in TemplateTests /\ pc = "done") =>
        \A b \in DOMAIN block_matches :
            LET block == Chunk(series, b, blocksize)
                tpl == template[1]
                over == IF test = "overlapping_template_matching"
                        THEN block_matches[b]
                        ELSE OverlappingMatches(block, tpl, blocksize)
                nonover == IF test = "non_overlapping_template_matching"
                           THEN block_matches[b]
                           ELSE NonOverlappingMatches(block, tpl)
            IN  /\ over >= nonover
                /\ (/\ Len(tpl) >= 2 /\ Len(block) > Len(tpl)
                    /\ \A j \in DOMAIN tpl : tpl[j] = tpl[1]
                    /\ \A i \in DOMAIN block : block[i] = tpl[1]) => over > nonover

\* The overlapping test has counted template 1 1 in the block 1 1 1 1 1.
C4_Witness ==
    /\ test = "overlapping_template_matching" /\ pc = "done"
    /\ template = << <<1, 1>> >>
    /\ blocksize = 5 /\ Chunk(series, 1, blocksize) = <<1, 1, 1, 1, 1>>
    /\ block_matches[1] > NonOverlappingMatches(Chunk(series, 1, blocksize), template[1])

\* C8: the sequence is cut into exactly nblocks blocks of n // nblocks
\* elements: there are nblocks per-block counts, and the 6 tallies of the
\* overlapping test sum to nblocks.
C8_ExactlyNblocks ==
    (test \in TemplateTests /\ pc = "done") =>
        /\ blocksize = series.n \div nblocks
        /\ Len(block_matches) = nblocks
        /\ test = "overlapping_template_matching" => Sum(tallies) = nblocks

\* The values of a series: those of its first period.
SeriesValues(s) == {At(s, i) : i \in 0..(Min(s.n, Len(s.pat)) - 1)}

\* C9: the body of a template-matching test runs only with a template whose
\* values are all values of the sequence; a template with a value the
\* sequence lacks fails in the wrapper, before the body, with no result.
C9_TemplateInSequence ==
    test \in TemplateTests =>
        /\ pc \in {"body", "done"} =>
              /\ template # <<>>
              /\ Range(template[1]) \subseteq SeriesValues(series)
        /\ (template # <<>> /\ ~(Range(template[1]) \subseteq SeriesValues(series))) =>
              /\ pc \in {"call", "template", "failed"}
              /\ pc = "failed" => error \in {"MinimumInputError",
                                             "TemplateContainsElementsNotInSequenceError"}
              /\ block_matches = <<>> /\ result = <<>>
        /\ error = "TemplateContainsElementsNotInSequenceError" =>
              /\ pc = "failed"
              /\ ~(Range(template[1]) \subseteq SeriesValues(series))

\* The template 1 2 has been refused for a series of 0s and 1s.
C9_Witness ==
    /\ test \in TemplateTests /\ pc = "failed"
    /\ error = "TemplateContainsElementsNotInSequenceError"
    /\ template = << <<1, 2>> >>
    /\ SeriesValues(series) = {0, 1}

-----------------------------------------------------------------------------
(* Properties of the spectral test *)

\* C11: an odd-length series loses its final element, and when fewer than
\* 2 distinct values are left the test fails with
\* NonBinaryTruncatedSequenceError before the transform, before any
\* statistic and without advancing the progress observer; an even-length
\* series loses nothing and never raises this error.
C11_TruncationChecked ==
    (test \in SpectralTests /\ pc \notin {"call", "body"}
        /\ error # "NonBinarySequenceError") =>
        /\ len_n % 2 = 0 =>
              series.n = len_n /\ error # "NonBinaryTruncatedSequenceError"
        /\ len_n % 2 # 0 => series.n = len_n - 1
        /\ pc # "failed" => Cardinality(SeriesValues(series)) = 2
        /\ Cardinality(SeriesValues(series)) < 2 =>
              /\ pc = "failed"
              /\ error = "NonBinaryTruncatedSequenceError"
        /\ pc = "failed" =>
              /\ error = "NonBinaryTruncatedSequenceError"
              /\ Cardinality(SeriesValues(series)) < 2
              /\ task.advanced = 0
              /\ fourier = <<>> /\ nbelow = 0 /\ result = <<>>

\* The truncation of 0 0 1 has left one value and spectral has failed.
C11_Witness ==
    /\ test = "spectral" /\ pc = "failed"
    /\ error = "NonBinaryTruncatedSequenceError"
    /\ len_n = 3 /\ Items(series) = <<0, 0>>
    /\ task = [total |-> 4, advanced |-> 0]

\* C15: on an odd-length series the spectral test uses the length of the
\* truncated series for the threshold, the expected count, the
\* half-spectrum cut and the normalisation, so its result is the result for
\* the series without its final element.
C15_TruncatedLengthUsed ==
    (test \in SpectralTests /\ pc = "done" /\ len_n % 2 # 0) =>
        result = <<SpectralCompute(series, candidate[1], series.n)>>

-----------------------------------------------------------------------------
(* Properties of the recommendations *)

\* C12: a failing recommendation never aborts a test and never changes its
\* answer.  Once non_overlapping_template_matching has passed the minimum
\* length and the template validation it returns, its warnings are exactly
\* the recommendations that fail and its result is the one computed without
\* the recommendations; the spectral test returns with the warning
\* "n >= 1000" exactly when n < 1000 and the result computed without it.
C12_RecommendationsSoft ==
    /\ (/\ test = "non_overlapping_template_matching"
        /\ pc \in {"done", "failed"}
        /\ error \notin {"MinimumInputError",
                         "TemplateContainsElementsNotInSequenceError"}) =>
           /\ pc = "done"
           /\ error = ""
           /\ nblocks > 100 => "nblocks <= 100" \in warnings
           /\ warnings = FailedRecommendations(series.n, nblocks, blocksize)
           /\ result = <<NonOverlappingResult(
                            NonOverlappingBlockMatches(series, template[1], blocksize),
                            nblocks, blocksize, Len(template[1]))>>
    /\ (test \in SpectralTests /\ pc = "done") =>
           /\ error = ""
           /\ warnings = SpectralFailures(len_n)
           /\ result = <<SpectralCompute(series, candidate[1], len_n)>>

-----------------------------------------------------------------------------
(* Properties of the special functions' arguments *)

\* C14: on a binary sequence of at least the test's minimum length every
\* special function is called inside its domain, so that p lies in [0,1]:
\* the variance dividing the non-overlapping statistic is positive, and the
\* rate lambda of the overlapping test is positive, which its 6 reference
\* probabilities (the divisors nblocks * probability of its statistic) need
\* to be positive.
C14_SpecialFunctionDomains ==
    (/\ test \in TemplateTests
     /\ pc = "done"
     /\ Cardinality(SeriesValues(series)) = 2) =>
        /\ test = "non_overlapping_template_matching" =>
              result[1].var_num > 0 /\ result[1].dfx2 > 0
        /\ test = "overlapping_template_matching" =>
              result[1].lambda_num > 0 /\ result[1].nblocks > 0

-----------------------------------------------------------------------------
(* Properties of local_run *)

\* The results whose report() returns markup, in result order.
RECURSIVE Rendered(_, _)
Rendered(rs, i) ==
    IF i > Len(rs) THEN <<>>
    ELSE (IF rs[i] = "markup" THEN <<Markup(i)>> ELSE <<>>) \o Rendered(rs, i + 1)

\* C13: with a report path, when local_run ends the markup of every result
\* whose report() succeeds has been written to the report file, in result
\* order, whichever other results failed to render.
C13_EveryMarkupWritten ==
    (results # <<>> /\ report # <<>> /\ pc \in {"done", "failed"}) =>
        (Rendered(results, 1) # <<>> => report_file = <<Rendered(results, 1)>>)

-----------------------------------------------------------------------------
(* Properties of the store *)

\* C16: the manifest and the store directories agree.  Every store name in
\* the manifest has its directory with its data and profiles on disk; after
\* drop(name) the name is no longer in the manifest; and open_data of a
\* name whose store is not on disk fails with ManifestError.
C16_ManifestAgrees ==
    /\ \A store_name \in manifest : StoreExists(store_name)
    /\ (last # <<>> /\ last[1].op = "drop" /\ last[1].outcome = "ok") =>
          last[1].name \notin manifest
    /\ (last # <<>> /\ last[1].op = "open_data" /\ ~StoreExists(last[1].name)) =>
          last[1].outcome = "ManifestError"

====
